---- MODULE Spec2Model ----
(***************************************************************************)
(* The data-refresh and resampling pipeline of the oceanographic dashboard *)
(* (src/main.py, src/locness_app/data.py).                                 *)
(*                                                                         *)
(* The dashboard is a script that the UI framework runs from top to bottom *)
(* once per evaluation cycle.  Between cycles only the session state       *)
(* (last_update, data_cache) and the widget values survive.  The store is  *)
(* a table written by another process.  Time is counted in whole seconds.  *)
(***************************************************************************)
EXTENDS Integers, Sequences, FiniteSets, TLC

\* ------------------------------------------------------------- bounds ---
MaxRows == 2      \* rows the store may hold

\* ----------------------------------------------------------- constants ---
SecondsPerHour == 3600
SecondsPerDay == 24 * SecondsPerHour

\* The instants (seconds) at which the system is looked at: the start, a second
\* later, and an hour after that.
Times == {0, 1, SecondsPerHour + 1}
\* A writer stores a row stamped with the current time, or one that arrives late.
ArrivalLag == {0, 1}
\* The values a measurement takes.
Values == {1, 2}

VARIABLES
  now,          \* wall clock, seconds
  store,        \* rows of table sensor_data, in insertion (id) order
  session,      \* st.session_state holds last_update and data_cache
  last_update,  \* st.session_state.last_update
  data_cache,   \* st.session_state.data_cache
  ui,           \* widget values the step just taken ran the script with
  branch,       \* branch of "Initialize or update data" the step just taken ran
  queries,      \* queries the step just taken sent to the store
  raised,       \* the step just taken ended in an exception out of the store
  rerun,        \* st.rerun() was called: the script runs again at once
  prev,         \* last_update and data_cache as the step just taken found them
  cache_hours,  \* time_range_hours in force when data_cache was last assigned
  rs_df,        \* resampling on its own: the input frame
  rs_freq,      \* resampling on its own: the bucket width, seconds
  rs_out,       \* resampling on its own: the result
  rs_done,      \* resampling on its own: resample_data has been applied
  dm_table,     \* DataManager on its own: rows of sensor_data, as inserted
  dm_cutoff,    \* DataManager on its own: the time_cutoff argument
  dm_freq,      \* DataManager on its own: the resample_freq argument
  dm_lite,      \* outcome of get_data_for_plotting on the SQLite file
  dm_duck,      \* outcome of get_data_for_plotting on the DuckDB file
  cfg_env,      \* configuration on its own: os.environ
  cfg_file,     \* configuration on its own: the parsed config.toml
  cfg_out       \* configuration on its own: outcome of get_config_value per key

vars == <<now, store, session, last_update, data_cache, ui, branch,
          queries, raised, rerun, prev, cache_hours,
          rs_df, rs_freq, rs_out, rs_done,
          dm_table, dm_cutoff, dm_freq, dm_lite, dm_duck,
          cfg_env, cfg_file, cfg_out>>
appvars == <<now, store, session, last_update, data_cache, ui, branch,
             queries, raised, rerun, prev, cache_hours>>
rsvars == <<rs_df, rs_freq, rs_out, rs_done>>
dmvars == <<dm_table, dm_cutoff, dm_freq, dm_lite, dm_duck>>
cfgvars == <<cfg_env, cfg_file, cfg_out>>

\* ------------------------------------------------------------- values ---
RECURSIVE GCD(_, _)
GCD(a, b) == IF b = 0 THEN a ELSE GCD(b, a % b)

\* A float is kept as an exact fraction in lowest terms; den = 0 is NaN.
NaN == [num |-> 0, den |-> 0]
Float(v) == [num |-> v, den |-> 1]
Frac(n, d) == LET g == GCD(n, d) IN [num |-> n \div g, den |-> d \div g]

RECURSIVE SumNum(_, _)
SumNum(s, d) ==
  IF s = <<>> THEN 0 ELSE Head(s).v.num * (d \div Head(s).v.den) + SumNum(Tail(s), d)

RECURSIVE LcmDen(_)
LcmDen(s) ==
  IF s = <<>> THEN 1
  ELSE LET l == LcmDen(Tail(s)) d == Head(s).v.den IN (l * d) \div GCD(l, d)

\* (sum_: the aggregation 'sum' in place of 'mean'.)
sum_(rows) ==
  IF rows = <<>> THEN NaN
  ELSE LET d == LcmDen(rows) IN Frac(SumNum(rows, d), d)

\* 'mean' of pandas over the rows of one bucket: NaN when there is none.
mean(rows) ==
  IF rows = <<>> THEN NaN
  ELSE LET d == LcmDen(rows) IN Frac(SumNum(rows, d), d * Len(rows))

RECURSIVE SortSet(_)
SortSet(S) ==
  IF S = {} THEN <<>>
  ELSE LET m == CHOOSE x \in S : \A y \in S : x <= y IN <<m>> \o SortSet(S \ {m})

\* ----------------------------------------------------- get_data_from_db ---
NoSince == [given |-> FALSE, t |-> 0]
Since(t) == [given |-> TRUE, t |-> t]

\* The rows a query selects, as positions of the table.
Selected(since) ==
  {i \in 1..Len(store) : since.given => store[i].ts > since.t}

\* (OrderByInsertion: the query without its ORDER BY, rows as inserted.)
\* ORDER BY timestamp: any order of the selected rows that ascends by timestamp
\* (the engine is free in how it orders rows of equal timestamp).
OrderByInsertion(idx) ==
  LET n == Cardinality(idx)
      p == [i \in 1..n |-> CHOOSE j \in idx : Cardinality({k \in idx : k < j}) = i - 1]
  IN {[i \in 1..n |-> [ts |-> store[p[i]].ts, v |-> Float(store[p[i]].v)]]}

OrderBy(idx) ==
  LET n == Cardinality(idx)
      P == {p \in [1..n -> idx] :
              /\ \A i, j \in 1..n : i # j => p[i] # p[j]
              /\ \A i \in 1..(n - 1) : store[p[i]].ts <= store[p[i + 1]].ts}
  IN {[i \in 1..n |-> [ts |-> store[p[i]].ts, v |-> Float(store[p[i]].v)]] : p \in P}

get_data_from_db(since) == OrderBy(Selected(since))

\* -------------------------------------------------------- resample_data ---
\* df.resample(freq): buckets of width freq, closed on the left and labelled by
\* their left edge, laid out from midnight of the first row's day; one output
\* row per bucket from the first row's to the last row's.
BinEdges(df, freq) ==
  LET first == df[1].ts
      last == df[Len(df)].ts
      origin == (first \div SecondsPerDay) * SecondsPerDay
      edge == first - ((first - origin) % freq)
  IN {edge + k * freq : k \in 0..((last - edge) \div freq)}

InBin(df, b, freq) == SelectSeq(df, LAMBDA r : b <= r.ts /\ r.ts < b + freq)

\* (resample_keepna: the aggregation without its dropna().)
resample_keepna(df, freq) ==
  IF df = <<>> THEN df
  ELSE LET agg == [b \in BinEdges(df, freq) |-> mean(InBin(df, b, freq))]
           idx == SortSet(DOMAIN agg)
       IN [i \in 1..Len(idx) |-> [ts |-> idx[i], v |-> agg[idx[i]]]]

resample_data(df, freq) ==
  IF df = <<>> THEN df
  ELSE LET agg == [b \in BinEdges(df, freq) |-> mean(InBin(df, b, freq))]
           dropna == {b \in DOMAIN agg : agg[b] # NaN}
           idx == SortSet(dropna)
       IN [i \in 1..Len(idx) |-> [ts |-> idx[i], v |-> agg[idx[i]]]]

\* ------------------------------------------------------------- widgets ---
\* resample_options: the pandas frequency of each choice, in seconds (0: None).
resample_options(choice) ==
  CASE choice = "No resampling" -> 0
    [] choice = "10 seconds" -> 10
    [] choice = "1 minute" -> 60
    [] choice = "5 minutes" -> 300
    [] choice = "15 minutes" -> 900
    [] choice = "1 hour" -> SecondsPerHour
    [] choice = "6 hours" -> 6 * SecondsPerHour

\* The widget values a cycle is run with (a few of each slider's range).
FrequencyChoices == {1, 10}
HoursChoices == {1, 24}
ResampleChoices == {"No resampling", "1 minute"}

Widgets(auto, button, freq, hours, rsmp) ==
  [auto_refresh |-> auto, refresh_now |-> button, update_frequency |-> freq,
   time_range_hours |-> hours, selected_resample |-> rsmp]

\* The widgets' initial values.
Defaults == Widgets(TRUE, FALSE, 10, 24, "1 minute")

\* --------------------------------------------------------------- Init ---
NoPrev == [last_update |-> 0, data_cache |-> <<>>]

InitApp ==
  /\ now = 0
  /\ store = <<>>
  /\ session = FALSE
  /\ last_update = 0
  /\ data_cache = <<>>
  /\ ui = Defaults
  /\ branch = "idle"
  /\ queries = <<>>
  /\ raised = FALSE
  /\ rerun = FALSE
  /\ prev = NoPrev
  /\ cache_hours = Defaults.time_range_hours

InitRs ==
  /\ rs_df = <<>>
  /\ rs_freq = 0
  /\ rs_out = <<>>
  /\ rs_done = FALSE

\* No DataManager call and no configuration lookup has been made.
Pending == [status |-> "pending"]

InitDm ==
  /\ dm_table = <<>>
  /\ dm_cutoff = [given |-> FALSE, t |-> 0]
  /\ dm_freq = [given |-> FALSE, seconds |-> 0]
  /\ dm_lite = Pending
  /\ dm_duck = Pending

InitCfg ==
  /\ cfg_env = <<>>
  /\ cfg_file = <<>>
  /\ cfg_out = <<>>

Init == InitApp /\ InitRs /\ InitDm /\ InitCfg

\* ------------------------------------------------------- environment ---
\* What a step that is not a run of the script leaves of the latest run.
Idle ==
  /\ branch' = "idle"
  /\ ui' = Defaults
  /\ queries' = <<>>
  /\ raised' = FALSE
  /\ prev' = NoPrev

\* The script has ended and the page waits for the next event.
Wait ==
  /\ branch # "idle"
  /\ ~rerun
  /\ Idle
  /\ UNCHANGED <<now, store, session, last_update, data_cache, rerun,
                 cache_hours>>
  /\ UNCHANGED <<rsvars, dmvars, cfgvars>>

Tick ==
  /\ branch = "idle"
  /\ \E t \in Times : t > now /\ now' = t
  /\ Idle
  /\ UNCHANGED <<store, session, last_update, data_cache, rerun, cache_hours>>
  /\ UNCHANGED <<rsvars, dmvars, cfgvars>>

\* Another process inserts a row into the table.
AppendRow ==
  /\ branch = "idle"
  /\ Len(store) < MaxRows
  /\ \E lag \in ArrivalLag, v \in Values :
       /\ now - lag >= 0
       /\ store' = Append(store, [ts |-> now - lag, v |-> v])
  /\ Idle
  /\ UNCHANGED <<now, session, last_update, data_cache, rerun, cache_hours>>
  /\ UNCHANGED <<rsvars, dmvars, cfgvars>>

\* ------------------------------------------------------------ the script ---
\* (WindowExclusive: the filter with > in place of >=.)
WindowExclusive(df, cutoff_time) == SelectSeq(df, LAMBDA r : r.ts > cutoff_time)

\* (WindowNone: no filter by time range.)
WindowNone(df, cutoff_time) == df

\* Filter by time range.
Window(df, cutoff_time) == SelectSeq(df, LAMBDA r : r.ts >= cutoff_time)

\* (FetchedLastWins: the refresh followed by a drop of all but the last row of
\* each timestamp.)
FetchedLastWins(raw, hours, rsmp) ==
  LET df == SelectSeq(raw, LAMBDA r : r.ts >= now - hours * SecondsPerHour)
      keep == {i \in 1..Len(df) : \A j \in (i + 1)..Len(df) : df[j].ts # df[i].ts}
      idx == SortSet(keep)
  IN [i \in 1..Len(idx) |-> df[idx[i]]]

\* The df of a refresh: the time window, then the resampling if one is selected.
Fetched(raw, hours, rsmp) ==
  LET cutoff_time == now - hours * SecondsPerHour
      df == IF raw # <<>> THEN Window(raw, cutoff_time) ELSE raw
  IN IF resample_options(rsmp) # 0 /\ df # <<>>
     THEN resample_data(df, resample_options(rsmp))
     ELSE df

\* (FetchSinceWatermark: the call handed the newest cached timestamp.)
FetchSinceWatermark(cache) ==
  IF cache = <<>> THEN NoSince ELSE Since(cache[Len(cache)].ts)

\* Both refresh branches call get_data_from_db() without since_timestamp.
FetchSince(cache) == NoSince

\* Both refresh branches: query, filter, resample, assign the cache.  The store
\* is a file another process writes: the query either answers, or (the file or
\* the table missing, the connection refused) raises out of get_data_from_db,
\* before any assignment; nothing in the script catches it.
Fetch(hours, rsmp, lu, cache, stamp, again) ==
  /\ queries' = <<FetchSince(cache)>>
  /\ \/ /\ \E raw \in get_data_from_db(FetchSince(cache)) :
             data_cache' = Fetched(raw, hours, rsmp)
        /\ last_update' = (IF stamp THEN now ELSE lu)
        /\ cache_hours' = hours
        /\ raised' = FALSE
        /\ rerun' = again
     \/ /\ data_cache' = cache
        /\ last_update' = lu
        /\ cache_hours' = cache_hours
        /\ raised' = TRUE
        /\ rerun' = FALSE

\* (DueAfter: the comparison with > in place of >=.)
DueAfter(auto, time_since_update, freq) == auto /\ time_since_update > freq

Due(auto, time_since_update, freq) == auto /\ time_since_update >= freq

\* One run of the script, top to bottom.
Script(auto, button, freq, hours, rsmp) ==
  LET lu0 == IF session THEN last_update ELSE now
      cache == IF session THEN data_cache ELSE <<>>
      lu == IF button THEN now - freq ELSE lu0
      time_since_update == now - lu
  IN /\ session' = TRUE
     /\ ui' = Widgets(auto, button, freq, hours, rsmp)
     /\ prev' = [last_update |-> lu0, data_cache |-> cache]
     /\ IF Due(auto, time_since_update, freq)
        THEN /\ branch' = "refresh"
             /\ Fetch(hours, rsmp, lu, cache, TRUE, TRUE)
        ELSE IF cache = <<>>
        THEN /\ branch' = "initial"
             /\ Fetch(hours, rsmp, lu, cache, FALSE, FALSE)
        ELSE /\ branch' = "cached"
             /\ queries' = <<>>
             /\ raised' = FALSE
             /\ rerun' = FALSE
             /\ last_update' = lu
             /\ data_cache' = cache
             /\ cache_hours' = cache_hours
     /\ UNCHANGED <<now, store>>
     /\ UNCHANGED <<rsvars, dmvars, cfgvars>>

\* A cycle started by the user touching a widget of the page.
Interact ==
  /\ branch = "idle"
  /\ \E auto \in BOOLEAN, button \in BOOLEAN, freq \in FrequencyChoices,
        hours \in HoursChoices, rsmp \in ResampleChoices :
       Script(auto, button, freq, hours, rsmp)

\* The cycle st.rerun() starts: the same widget values, the button released.
Rerun ==
  /\ rerun
  /\ Script(ui.auto_refresh, FALSE, ui.update_frequency, ui.time_range_hours,
            ui.selected_resample)

\* The status, map, charts and statistics are drawn when the script gets there:
\* not after an exception, and not after st.rerun().
Rendered == branch \in {"initial", "cached"} /\ ~raised

Next == Wait \/ Tick \/ AppendRow \/ Interact \/ Rerun

Spec == Init /\ [][Next]_vars

\* ------------------------------------------------ resample_data on its own ---
MaxSeries == 3    \* rows of a frame handed to resample_data

\* Timestamps ten seconds apart on the day after the epoch's, and bucket widths
\* in seconds: 10, 30 and 60 divide a day, 7 does not.
RsTimes == {SecondsPerDay + 10 * k : k \in 0..5}
RsWidths == {7, 10, 30, 60}
RsRows == [ts : RsTimes, v : {Float(v) : v \in Values}]
\* The frames a caller passes are ordered by timestamp.
RsFrames ==
  UNION {{f \in [1..n -> RsRows] : \A i \in 1..(n - 1) : f[i].ts <= f[i + 1].ts} :
           n \in 0..MaxSeries}

InitResample ==
  /\ InitApp
  /\ InitDm
  /\ InitCfg
  /\ rs_df \in RsFrames
  /\ rs_freq \in RsWidths
  /\ rs_out = <<>>
  /\ rs_done = FALSE

ApplyResample ==
  /\ ~rs_done
  /\ rs_out' = resample_data(rs_df, rs_freq)
  /\ rs_done' = TRUE
  /\ UNCHANGED <<rs_df, rs_freq>>
  /\ UNCHANGED <<appvars, dmvars, cfgvars>>

NextResample == ApplyResample

SpecResample == InitResample /\ [][NextResample]_vars

\* ------------------------------------------------------------ DataManager ---
MaxTable == 2     \* rows of the table handed to a DataManager

\* The time_cutoff argument: None, or a datetime.
NoCutoff == [given |-> FALSE, t |-> 0]
TimeCutoff(t) == [given |-> TRUE, t |-> t]
\* The resample_freq argument: None, or a frequency string of so many seconds
\* ('1min' is 60; '0s' and '-1min' are strings like any other, and truthy).
NoFreq == [given |-> FALSE, seconds |-> 0]
Freq(w) == [given |-> TRUE, seconds |-> w]

\* The two kinds of database file; __init__ tells them apart by the extension.
SqliteFile == [stem |-> "oceanographic_data", ext |-> ".db"]
DuckdbFile == [stem |-> "oceanographic_data", ext |-> ".duckdb"]
is_sqlite(db_path) == db_path.ext \in {".sqlite", ".db"}

\* The outcomes of a call: a frame, or an exception; with the queries it sent.
Ok(df, qs) == [status |-> "ok", df |-> df, queries |-> qs]
Raised(e, qs) == [status |-> "raised", error |-> e, queries |-> qs]

\* The query get_data_relation builds.  The bucketed SELECT lists
\* "AVG(ph) AS ph" and "AVG(ph_ma) AS ph_ma" with no comma between them: the
\* text is not a statement the engine can parse.
get_data_relation(sqlite, time_cutoff, resample_freq) ==
  LET base_query == [where |-> time_cutoff, bucket |-> NoFreq, parses |-> TRUE]
  IN IF resample_freq.given /\ ~sqlite
     THEN [where |-> time_cutoff, bucket |-> resample_freq, parses |-> FALSE]
     ELSE base_query

\* WHERE timestamp >= ?
DmSelected(table, where) ==
  {i \in 1..Len(table) : where.given => table[i].ts >= where.t}

\* ORDER BY timestamp, rows of equal timestamp in any order.
DmOrderBy(table, idx) ==
  LET n == Cardinality(idx)
      P == {p \in [1..n -> idx] :
              /\ \A i, j \in 1..n : i # j => p[i] # p[j]
              /\ \A i \in 1..(n - 1) : table[p[i]].ts <= table[p[i + 1]].ts}
  IN {[i \in 1..n |-> [ts |-> table[p[i]].ts, v |-> Float(table[p[i]].v)]] : p \in P}

\* time_bucket(width, timestamp) of the engine: buckets counted from its origin,
\* 2000-01-03 00:00:00, which is 10959 days after the epoch.
time_bucket(w, t) ==
  LET origin == 10959 * SecondsPerDay IN origin + ((t - origin) \div w) * w

\* SELECT time_bucket(..) AS timestamp, AVG(..) .. GROUP BY 1 ORDER BY 1
GroupByBucket(df, w) ==
  LET labels == {time_bucket(w, df[i].ts) : i \in 1..Len(df)}
      idx == SortSet(labels)
  IN [k \in 1..Len(idx) |->
        [ts |-> idx[k],
         v |-> mean(SelectSeq(df, LAMBDA r : time_bucket(w, r.ts) = idx[k]))]]

\* The engine runs a query on the table: the outcomes it can have.
execute(q, table) ==
  IF ~q.parses THEN {Raised("ParserException", <<q>>)}
  ELSE IF ~q.bucket.given
  THEN {Ok(df, <<q>>) : df \in DmOrderBy(table, DmSelected(table, q.where))}
  ELSE IF q.bucket.seconds <= 0 THEN {Raised("InvalidInputException", <<q>>)}
  ELSE {Ok(GroupByBucket(df, q.bucket.seconds), <<q>>) :
          df \in DmOrderBy(table, DmSelected(table, q.where))}

\* df.resample(resample_freq).agg(agg_dict).dropna() of the SQLite path, on a
\* non-empty frame: pandas cannot lay out bins of a width that is not positive.
DmResample(df, resample_freq, qs) ==
  IF resample_freq.seconds <= 0 THEN Raised("ValueError", qs)
  ELSE Ok(resample_data(df, resample_freq.seconds), qs)

\* get_data_for_plotting on a table: the outcomes the call can have.
get_data_for_plotting(db_path, table, time_cutoff, resample_freq) ==
  IF is_sqlite(db_path)
  THEN LET query == get_data_relation(TRUE, time_cutoff, NoFreq)
       IN {IF r.status = "ok" /\ r.df # <<>> /\ resample_freq.given
           THEN DmResample(r.df, resample_freq, r.queries)
           ELSE r : r \in execute(query, table)}
  ELSE LET query == get_data_relation(FALSE, time_cutoff, resample_freq)
       IN execute(query, table)

\* Timestamps thirty seconds apart and the arguments a caller passes.
DmTimes == {SecondsPerDay + 30 * k : k \in 0..3}
DmRows == [ts : DmTimes, v : Values]
DmTables == UNION {[1..n -> DmRows] : n \in 0..MaxTable}
DmCutoffs == {NoCutoff, TimeCutoff(SecondsPerDay + 30)}
DmFreqs == {NoFreq, Freq(0 - 60), Freq(0), Freq(60)}

InitPlotting ==
  /\ InitApp
  /\ InitRs
  /\ InitCfg
  /\ dm_table \in DmTables
  /\ dm_cutoff \in DmCutoffs
  /\ dm_freq \in DmFreqs
  /\ dm_lite = Pending
  /\ dm_duck = Pending

\* DataManager('oceanographic_data.db').get_data_for_plotting(..)
PlotSqlite ==
  /\ dm_lite = Pending
  /\ \E r \in get_data_for_plotting(SqliteFile, dm_table, dm_cutoff, dm_freq) :
       dm_lite' = r
  /\ UNCHANGED <<dm_table, dm_cutoff, dm_freq, dm_duck>>
  /\ UNCHANGED <<appvars, rsvars, cfgvars>>

\* DataManager('oceanographic_data.duckdb').get_data_for_plotting(..)
PlotDuckdb ==
  /\ dm_duck = Pending
  /\ \E r \in get_data_for_plotting(DuckdbFile, dm_table, dm_cutoff, dm_freq) :
       dm_duck' = r
  /\ UNCHANGED <<dm_table, dm_cutoff, dm_freq, dm_lite>>
  /\ UNCHANGED <<appvars, rsvars, cfgvars>>

NextPlotting == PlotSqlite \/ PlotDuckdb

SpecPlotting == InitPlotting /\ [][NextPlotting]_vars

\* ---------------------------------------------------------- configuration ---
MaxDefined == 2   \* keys one source (the environment, config.toml) defines

\* A configuration value: a string, or an integer.
Str(x) == [type |-> "str", s |-> x]
Int_(n) == [type |-> "int", n |-> n]

Keys == {"update_frequency", "resample", "file_path", "db_table"}

DEFAULTS ==
  [key \in {"update_frequency", "resample", "file_path"} |->
     CASE key = "update_frequency" -> Int_(10)
       [] key = "resample" -> Str("1min")
       [] key = "file_path" -> Str("oceanographic_data.duckdb")]

\* key.upper()
upper(key) ==
  CASE key = "update_frequency" -> "UPDATE_FREQUENCY"
    [] key = "resample" -> "RESAMPLE"
    [] key = "file_path" -> "FILE_PATH"
    [] key = "db_table" -> "DB_TABLE"

\* The strings an environment variable holds here, and int() of each: the
\* number a decimal string spells, ValueError for any other string.
EnvStrings == {"5", "0", "abc"}
IsDecimal(val) == val \in {"5", "0"}
int(val) == CASE val = "5" -> 5 [] val = "0" -> 0

\* The values config.toml gives a key here.
FileValues == {Int_(30), Str("5min")}

\* A source defines some of the keys.
EnvMaps ==
  UNION {[D -> EnvStrings] :
           D \in {E \in SUBSET {upper(k) : k \in Keys} : Cardinality(E) <= MaxDefined}}
FileMaps ==
  UNION {[D -> FileValues] :
           D \in {E \in SUBSET Keys : Cardinality(E) <= MaxDefined}}

\* The outcomes of a lookup: a value, or KeyError out of DEFAULTS[key].
Resolved(val) == [status |-> "ok", val |-> val]
KeyError == [status |-> "raised", error |-> "KeyError"]

get_config_value(key) ==
  LET env_key == upper(key)
  IN IF env_key \in DOMAIN cfg_env
     THEN LET val == cfg_env[env_key]
          IN IF key = "update_frequency" /\ IsDecimal(val)
             THEN Resolved(Int_(int(val)))
             ELSE Resolved(Str(val))
     ELSE IF key \in DOMAIN cfg_file THEN Resolved(cfg_file[key])
     ELSE IF key \in DOMAIN DEFAULTS THEN Resolved(DEFAULTS[key])
     ELSE KeyError

InitConfig ==
  /\ InitApp
  /\ InitRs
  /\ InitDm
  /\ cfg_env \in EnvMaps
  /\ cfg_file \in FileMaps
  /\ cfg_out = <<>>

\* One lookup, as the module makes for each key when it is imported.
GetConfigValue ==
  /\ \E key \in Keys \ DOMAIN cfg_out :
       cfg_out' = cfg_out @@ (key :> get_config_value(key))
  /\ UNCHANGED <<cfg_env, cfg_file>>
  /\ UNCHANGED <<appvars, rsvars, dmvars>>

NextConfig == GetConfigValue

SpecConfig == InitConfig /\ [][NextConfig]_vars

\* ================================================================ claims ===
\* The step just taken was a run of the script.
ScriptRan == branch # "idle"
\* The step just taken assigned the cache from a query that answered.
Wrote == branch \in {"refresh", "initial"} /\ ~raised
\* The lower bound of the time window of the run just taken.
Cutoff == now - ui.time_range_hours * SecondsPerHour
NoResampling == resample_options(ui.selected_resample) = 0
\* Elapsed time since the last refresh, as the run just taken found it.
Elapsed == now - prev.last_update

InWindow == {i \in 1..Len(store) : store[i].ts >= Cutoff}
StoreRowsAt(t) == {i \in InWindow : store[i].ts = t}
CacheRowsAt(t) == {k \in 1..Len(data_cache) : data_cache[k].ts = t}
CacheCount(t, v) ==
  Cardinality({k \in CacheRowsAt(t) : data_cache[k].v = Float(v)})
StoreCount(t, v) == Cardinality({i \in StoreRowsAt(t) : store[i].v = v})
Ascending(s) == \A i \in 1..(Len(s) - 1) : s[i].ts <= s[i + 1].ts
StrictlyAscending(s) == \A i \in 1..(Len(s) - 1) : s[i].ts < s[i + 1].ts
DistinctStoreTimes ==
  \A i, j \in 1..Len(store) : i # j => store[i].ts # store[j].ts

C4_FailureIsHandled ==
  raised =>
    /\ data_cache = prev.data_cache
    /\ last_update = prev.last_update
    /\ Len(queries) = 1
    /\ Rendered

\* ---------------------------------------------------------------- C5 ---
\* C5 as stated: a run that finds elapsed time >= update_frequency queries the
\* store; a run that finds a non-empty cache, no manual request and elapsed
\* time < update_frequency does not.
C5_DueWheneverElapsed ==
  ScriptRan =>
    /\ Elapsed >= ui.update_frequency => queries # <<>>
    /\ (prev.data_cache # <<>> /\ ~ui.refresh_now /\ Elapsed < ui.update_frequency)
         => queries = <<>>

\* C5 as amended: a run with auto-refresh enabled that finds elapsed time >=
\* update_frequency takes the refresh branch and queries the store once; with
\* auto-refresh disabled no elapsed time makes a refresh due, and the store is
\* queried only while the cache is empty; a run that finds a non-empty cache,
\* no manual request and elapsed time < update_frequency queries nothing.
C5_DueWhenAutoRefresh ==
  ScriptRan =>
    /\ (ui.auto_refresh /\ Elapsed >= ui.update_frequency)
         => (branch = "refresh" /\ Len(queries) = 1)
    /\ (~ui.auto_refresh /\ prev.data_cache # <<>>) => queries = <<>>
    /\ (prev.data_cache # <<>> /\ ~ui.refresh_now /\ Elapsed < ui.update_frequency)
         => queries = <<>>

\* A run with no manual request found elapsed time equal to update_frequency
\* and a non-empty cache, and refreshed.
C5_Witness ==
  /\ branch = "refresh" /\ ~ui.refresh_now
  /\ Elapsed = ui.update_frequency
  /\ prev.data_cache # <<>>
  /\ Len(queries) = 1

\* ---------------------------------------------------------------- C6 ---
\* C6 as stated: a run with "Refresh Now" pressed moves last_update into the
\* past, queries the store and (the query answering) replaces the cache,
\* whatever the other widgets say.
C6_RefreshNowFetches ==
  (ScriptRan /\ ui.refresh_now) =>
    /\ last_update <= now - ui.update_frequency \/ last_update = now
    /\ Len(queries) = 1
    /\ ~raised => branch \in {"refresh", "initial"}

\* ---------------------------------------------------------------- C7 ---
\* C7 as stated: a run that assigned the cache from a query, on the refresh
\* branch or on the initial-load branch, leaves last_update at the time of the
\* run.
C7_WriteStampsLastUpdate == Wrote => last_update = now

\* ---------------------------------------------------------------- C8 ---
\* C8 as stated: a run whose time_range_hours differs from the one the cache
\* was built with queries the store and rebuilds the cache, so that after every
\* run that ended normally the cache is the one of the current time range.
C8_RangeChangeReloads ==
  (ScriptRan /\ ~raised) => cache_hours = ui.time_range_hours

\* ---------------------------------------------------------------- C9 ---
\* C9: after a refresh without resampling of a store whose rows all lie in the
\* time window, the cache holds as many rows as the store (n + k after k rows
\* were appended to n loaded ones), each store row once, ascending, and its
\* newest timestamp is the store's newest.
C9_SteadyGrowth ==
  (Wrote /\ NoResampling /\ InWindow = 1..Len(store)) =>
    /\ Len(data_cache) = Len(store)
    /\ Ascending(data_cache)
    /\ \A i \in 1..Len(store) :
         CacheCount(store[i].ts, store[i].v) = StoreCount(store[i].ts, store[i].v)
    /\ \A i \in 1..Len(store) : store[i].ts <= data_cache[Len(data_cache)].ts
    /\ store # <<>> => \E i \in 1..Len(store) :
                         store[i].ts = data_cache[Len(data_cache)].ts

\* A full load of n rows, then k rows of strictly greater timestamps appended,
\* then a scheduled refresh: the cache went from n to n + k rows.
C9_Witness ==
  /\ branch = "refresh" /\ ~raised /\ NoResampling
  /\ InWindow = 1..Len(store)
  /\ prev.data_cache # <<>>
  /\ Len(data_cache) > Len(prev.data_cache)
  /\ \A k \in 1..Len(prev.data_cache) : data_cache[k] = prev.data_cache[k]
  /\ \A k \in (Len(prev.data_cache) + 1)..Len(data_cache) :
       data_cache[k].ts > prev.data_cache[Len(prev.data_cache)].ts

\* --------------------------------------------------------------- C10 ---
\* The bucket of a timestamp by floor division of epoch time.
FloorBucket(t, w) == (t \div w) * w
\* The bucket of a timestamp counted from midnight of the frame's first day.
DayBucket(t, w) ==
  LET midnight == (rs_df[1].ts \div SecondsPerDay) * SecondsPerDay
  IN midnight + ((t - midnight) \div w) * w

RECURSIVE RsTotal(_)
RsTotal(S) ==
  IF S = {} THEN 0
  ELSE LET i == CHOOSE x \in S : TRUE IN rs_df[i].v.num + RsTotal(S \ {i})

\* rs_out is the resampling of rs_df with buckets [B(t), B(t) + rs_freq): one
\* row per bucket that holds a row of rs_df, ascending by bucket start, its
\* value the sum of the bucket's values over their number, and the value itself
\* of a bucket of one row.
RsIsResampleBy(B(_, _)) ==
  /\ StrictlyAscending(rs_out)
  /\ {rs_out[k].ts : k \in 1..Len(rs_out)}
       = {B(rs_df[i].ts, rs_freq) : i \in 1..Len(rs_df)}
  /\ \A k \in 1..Len(rs_out) :
       LET S == {i \in 1..Len(rs_df) : B(rs_df[i].ts, rs_freq) = rs_out[k].ts}
       IN /\ \A i \in S : rs_out[k].ts <= rs_df[i].ts
                          /\ rs_df[i].ts < rs_out[k].ts + rs_freq
          /\ rs_out[k].v.den > 0
          /\ rs_out[k].v.num * Cardinality(S) = rs_out[k].v.den * RsTotal(S)
          /\ Cardinality(S) = 1 => \A i \in S : rs_out[k].v = rs_df[i].v

\* The example: readings at 0, 10, ..., 50 s with v = 1..6, width 30 s.
RsExample ==
  resample_data([i \in 1..6 |-> [ts |-> 10 * (i - 1), v |-> Float(i)]], 30)
    = <<[ts |-> 0, v |-> Float(2)], [ts |-> 30, v |-> Float(5)]>>

\* C10 as stated: for every width, resample_data puts each reading into the
\* bucket [t, t + width) with t = floor(timestamp / width) * width and emits
\* each bucket's mean, ascending by bucket start; a bucket of one reading keeps
\* its values.
C10_FloorBuckets == rs_done => RsIsResampleBy(FloorBucket)

\* C10 as amended: resample_data lays its buckets out from midnight of the first
\* reading's day: each reading is in the bucket [t, t + width) with
\* t = midnight + floor((timestamp - midnight) / width) * width.  For every
\* width that divides 24 hours (each selectable width, and the 30 s of the
\* example) that is t = floor(timestamp / width) * width.  Each bucket's row is
\* the unweighted mean of exactly its readings, rows ascend by bucket start, a
\* bucket of one reading keeps its values, and the example yields 0 -> 2 and
\* 30 -> 5.
C10_DayAnchoredBuckets ==
  /\ RsExample
  /\ rs_done => RsIsResampleBy(DayBucket)
  /\ (rs_done /\ SecondsPerDay % rs_freq = 0) => RsIsResampleBy(FloorBucket)

\* resample_data was applied with a width that divides a day to three readings:
\* two in one bucket, of different values, and one alone in the next.
C10_Witness ==
  /\ rs_done /\ SecondsPerDay % rs_freq = 0
  /\ Len(rs_df) = 3 /\ Len(rs_out) = 2
  /\ rs_df[1].v # rs_df[2].v
  /\ FloorBucket(rs_df[1].ts, rs_freq) = FloorBucket(rs_df[2].ts, rs_freq)
  /\ rs_out[2].v = rs_df[3].v

\* --------------------------------------------------------------- C11 ---
\* The readings of rs_df that lie in the bucket starting at b.
RsContributors(b) ==
  {i \in 1..Len(rs_df) : b <= rs_df[i].ts /\ rs_df[i].ts < b + rs_freq}

\* C11: for every input frame and every bucket width, also one smaller than the
\* gap between consecutive readings, each row of the resampled output is the
\* row of a bucket that holds at least one input reading, and its value is a
\* number, never a null; so the output has no more rows than the input.
C11_NoEmptyBucketRows ==
  rs_done =>
    /\ \A k \in 1..Len(rs_out) :
         /\ RsContributors(rs_out[k].ts) # {}
         /\ rs_out[k].v # NaN
         /\ rs_out[k].v.den > 0
    /\ Len(rs_out) <= Len(rs_df)

\* resample_data was applied with a width smaller than the gap between two
\* consecutive readings: a whole bucket between them has no reading, and the
\* output steps over it.
C11_Witness ==
  /\ rs_done
  /\ \E i \in 1..(Len(rs_df) - 1) : rs_df[i + 1].ts - rs_df[i].ts > rs_freq
  /\ \E k \in 1..(Len(rs_out) - 1) :
       /\ rs_out[k + 1].ts - rs_out[k].ts > rs_freq
       /\ RsContributors(rs_out[k].ts + rs_freq) = {}

\* --------------------------------------------------------------- C12 ---
DmBothCalled == dm_lite # Pending /\ dm_duck # Pending
DmValidWidth == dm_freq.given /\ dm_freq.seconds > 0
DmInvalidWidth == dm_freq.given /\ dm_freq.seconds <= 0

\* C12 as stated: for the same table, the same cutoff and the same bucket width
\* (60 s), get_data_for_plotting on the DuckDB file (bucketed in the query) and
\* on the SQLite file (resampled in pandas) both succeed, and return the same
\* bucket start times with equal means per bucket.
C12_BackendParity ==
  (DmBothCalled /\ DmValidWidth) =>
    /\ dm_lite.status = "ok"
    /\ dm_duck.status = "ok"
    /\ dm_lite.df = dm_duck.df

\* --------------------------------------------------------------- C13 ---
\* C13 as stated: a call with a bucket width <= 0 fails, and fails before any
\* query is sent to the store.
C13_InvalidWidthRejected ==
  DmInvalidWidth =>
    /\ dm_lite # Pending => (dm_lite.status = "raised" /\ dm_lite.queries = <<>>)
    /\ dm_duck # Pending => (dm_duck.status = "raised" /\ dm_duck.queries = <<>>)

\* --------------------------------------------------------------- C14 ---
\* The value of the highest source that defines the key: the environment
\* variable (as an integer for update_frequency when it spells one), else
\* config.toml.
CfgDefined(key) == upper(key) \in DOMAIN cfg_env \/ key \in DOMAIN cfg_file
CfgFromSources(key) ==
  IF upper(key) \in DOMAIN cfg_env
  THEN {Str(cfg_env[upper(key)])}
       \cup (IF IsDecimal(cfg_env[upper(key)])
             THEN {Int_(int(cfg_env[upper(key)]))} ELSE {})
  ELSE {cfg_file[key]}

\* C14 as stated: every key resolves; to the value of its highest defining
\* source (environment variable over config.toml) when one defines it, to its
\* built-in default when none does; and update_frequency resolves to an
\* integer >= 1.
C14_Precedence ==
  \A key \in DOMAIN cfg_out :
    /\ cfg_out[key].status = "ok"
    /\ CfgDefined(key) => cfg_out[key].val \in CfgFromSources(key)
    /\ (~CfgDefined(key) /\ key \in DOMAIN DEFAULTS)
         => cfg_out[key].val = DEFAULTS[key]
    /\ key = "update_frequency"
         => (cfg_out[key].val.type = "int" /\ cfg_out[key].val.n >= 1)

\* --------------------------------------------------------------- C15 ---
\* The bucket width of the run just taken.
Width == resample_options(ui.selected_resample)

\* The sum of the values of the store's rows at the positions S.
RECURSIVE StoreTotal(_)
StoreTotal(S) ==
  IF S = {} THEN 0
  ELSE LET i == CHOOSE x \in S : TRUE IN store[i].v + StoreTotal(S \ {i})

\* C15 as stated: after a refresh with cutoff c = now - time_range_hours every
\* cached row has a timestamp >= c, also when resampling is selected.
C15_CacheAtOrAfterCutoff ==
  Wrote => \A k \in 1..Len(data_cache) : data_cache[k].ts >= Cutoff

\* C15 as amended: after a refresh without resampling every cached row has a
\* timestamp >= c.  After a refresh with resampling every cached row is the row
\* of a bucket [t, t + width) that holds a stored reading with timestamp >= c,
\* and is the mean of exactly the bucket's readings with timestamp >= c; its
\* label t is the bucket's start, so t > c - width, and t < c when c lies
\* inside the bucket.
C15_WindowBound ==
  /\ (Wrote /\ NoResampling) =>
       \A k \in 1..Len(data_cache) : data_cache[k].ts >= Cutoff
  /\ (Wrote /\ ~NoResampling) =>
       \A k \in 1..Len(data_cache) :
         LET S == {i \in InWindow : /\ data_cache[k].ts <= store[i].ts
                                    /\ store[i].ts < data_cache[k].ts + Width}
         IN /\ data_cache[k].ts > Cutoff - Width
            /\ S # {}
            /\ data_cache[k].v.den > 0
            /\ data_cache[k].v.num * Cardinality(S)
                 = data_cache[k].v.den * StoreTotal(S)

\* A refresh with resampling cached a bucket whose label lies before the
\* cutoff, while the store also holds a row before the cutoff, left out.
C15_Witness ==
  /\ Wrote /\ ~NoResampling
  /\ \E k \in 1..Len(data_cache) : data_cache[k].ts < Cutoff
  /\ \E i \in 1..Len(store) : store[i].ts < Cutoff

====
